---- MODULE Spec2Model ----
(***************************************************************************)
(* A model of blackhawkdown: the XTAF (FATX) image reader of src/fatx.rs,  *)
(* the parallel signature scanner of src/scanners.rs and the driver of     *)
(* src/main.rs.                                                            *)
(*                                                                         *)
(* The disk image is a byte sequence of length image.len.  It is kept      *)
(* sparse: image.b gives the bytes that are not zero (and some that are),  *)
(* every other byte below image.len reads as 0.  Offsets, sizes and the    *)
(* program's constants keep their real values.                             *)
(*                                                                         *)
(* A u32 read from the image is kept as a signed 32-bit number: a word     *)
(* with its top bit set, w >= 2^31, is represented by w - 2^32 (so         *)
(* 0xFFFFFFFF is -1 and 0xFFFFFFF8 is -8).                                 *)
(***************************************************************************)
EXTENDS Integers, Sequences, FiniteSets, Bags, TLC

VARIABLES
    image,          \* the mapped image: [len, b]
    part,           \* the Partition the operation under study works on
    \* Entry::parse, with the walk of block_chain_from_root it makes
    rec,            \* the 64-byte record handed to Entry::parse
    epc,            \* "start" | "walk" | "filter" | "done"
    is_deleted,     \* Entry::parse's local is_deleted
    next,           \* block_chain_from_root's local next
    chain,          \* block_chain_from_root's chain / parse's block_chain
    result,         \* what Entry::parse returned
    \* Directory::read_block
    dpc,            \* "idle" | "loop" | "done"
    block,          \* the cluster read
    position,       \* cursor.position()
    entry_data,     \* read_block's 64-byte buffer
    entries,        \* the entries collected so far
    \* find_deleted_files
    scan,           \* [lo, hi]: the range handed to find_deleted_files
    known_files,    \* offsets of the known live entries
    wpc,            \* per worker: "probe" | "lock" | "push" | "done" | "panicked"
    current_offset, \* per worker: its current_offset
    pending,        \* per worker: the discovery it is about to push
    lock,           \* holder of the RwLock's write guard (0: free)
    deleted_files,  \* the shared Vec behind the lock
    pushed,         \* history: bag of every discovery a worker appended
    joined,         \* number of join handles the caller has joined
    returned,       \* what find_deleted_files returned (None before)
    \* main
    pc,             \* "start" | "live" | "scan" | "carve" | "done" | "failed"
    hdd,            \* what devkit_partitions returned
    cur,            \* index of the partition being worked on (1 or 2)
    todo,           \* discoveries still to materialize for partition cur
    video_files,    \* main's counter video_files
    err,            \* the error or panic that ended the run ("none" if none)
    dirs,           \* output: directories created
    files,          \* output: files written
    bink            \* the last Bink discovery handled: its offset and main's file_size

entryVars == <<rec, epc, is_deleted, next, chain, result>>
dirVars   == <<dpc, block, position, entry_data, entries>>
scanVars  == <<scan, known_files, wpc, current_offset, pending, lock,
               deleted_files, pushed, joined, returned>>
runVars   == <<pc, hdd, cur, todo, video_files, err, dirs, files, bink>>
vars      == <<image, part, entryVars, dirVars, scanVars, runVars>>

(***************************************************************************)
(* Program constants.                                                      *)
(***************************************************************************)
ENTRY_SIZE        == 64
SECTOR_SIZE       == 512
DELETED_FILE_FLAG == 229
MAX_FILENAME_LEN  == 42
FAT_TABLE_OFFSET  == 4096
MIN_DISK_LENGTH   == 24
NUM_THREADS       == 8
STRIDE            == 16
XTAF_MAGIC        == 1481916742
ATTR_DIRECTORY    == 16
ATTR_UNKNOWN_BIT  == 8

(***************************************************************************)
(* Bounds of the model.                                                    *)
(***************************************************************************)
MaxCluster == 2     \* FAT entries 1..MaxCluster vary; first_cluster <= MaxCluster
MaxChain   == 5     \* a walk is followed for at most this many pushes
DirSlots   == 2     \* records written at the head of a directory cluster
MaxEntries == 9     \* read_block is followed for at most this many entries

(***************************************************************************)
(* Bytes, words, the sparse image.                                         *)
(***************************************************************************)
None == [kind |-> "None"]

Min(a, b) == IF a < b THEN a ELSE b

\* the four big-endian bytes of a word 0 <= v < 2^31
BE32(v) == << v \div 16777216, (v \div 65536) % 256, (v \div 256) % 256, v % 256 >>
BE16(v) == << (v \div 256) % 256, v % 256 >>
LE32(v) == << v % 256, (v \div 256) % 256, (v \div 65536) % 256, v \div 16777216 >>

\* the bytes of s laid out from offset off
Put(off, s) == [p \in off .. off + Len(s) - 1 |-> s[p - off + 1]]

\* the image of length len whose bytes are those of f where f is defined and
\* not zero, and zero everywhere else
Image(len, f) == [len |-> len, b |-> [p \in {q \in DOMAIN f : f[q] # 0} |-> f[p]]]

ByteAt(img, p) == IF p \in DOMAIN img.b THEN img.b[p] ELSE 0

\* BigEndian u32 of four bytes, as a signed 32-bit number
U32BE(b0, b1, b2, b3) ==
    (IF b0 >= 128 THEN b0 - 256 ELSE b0) * 16777216 + b1 * 65536 + b2 * 256 + b3

\* LittleEndian::read_u32 of four bytes
U32LE(b0, b1, b2, b3) == U32BE(b3, b2, b1, b0)

\* cursor.read_u32::<BigEndian>() at position p: UnexpectedEof past the end
read_u32(img, p) ==
    IF p + 4 > img.len THEN [ok |-> FALSE]
    ELSE [ok |-> TRUE,
          v  |-> U32BE(ByteAt(img, p), ByteAt(img, p + 1),
                       ByteAt(img, p + 2), ByteAt(img, p + 3))]

read_u16(img, p) ==
    IF p + 2 > img.len THEN [ok |-> FALSE]
    ELSE [ok |-> TRUE, v |-> ByteAt(img, p) * 256 + ByteAt(img, p + 1)]

(***************************************************************************)
(* Partition::new and the geometry of a partition.                         *)
(***************************************************************************)
RECURSIVE Log2Floor(_)
Log2Floor(x) == IF x <= 1 THEN 0 ELSE 1 + Log2Floor(x \div 2)

RECURSIVE Pow2(_)
Pow2(n) == IF n = 0 THEN 1 ELSE 2 * Pow2(n - 1)

\* allocation_table_size and the entry width, lines 114-122.  The last mask,
\* & 0xFFFFFFFF, changes nothing below 2^31, where every length of the model lies.
AllocationTable(len, sectors_per_cluster) ==
    LET shift_factor == Log2Floor(sectors_per_cluster * 512)
        guess        == (len \div Pow2(shift_factor)) + 1
        entry_shift  == IF guess < 65520 THEN 1 ELSE 2
        shifted      == guess * Pow2(entry_shift) + (4096 - 1)
    IN  [entry_shift |-> entry_shift,
         size        |-> shifted - (shifted % 4096)]

Partition_new(img, offset, len, name) ==
    IF img.len < offset
    THEN [ok |-> FALSE, err |-> "InvalidDiskLength"]
    ELSE LET magic == read_u32(img, offset) IN
         IF ~magic.ok THEN [ok |-> FALSE, err |-> "IoError"]
         ELSE IF magic.v # XTAF_MAGIC
         THEN [ok |-> FALSE, err |-> "InvalidFilesystemMagic"]
         ELSE LET spc  == read_u32(img, offset + 8)
                  root == read_u32(img, offset + 12)
              IN  IF ~spc.ok \/ ~root.ok THEN [ok |-> FALSE, err |-> "IoError"]
                  ELSE LET at == AllocationTable(len, spc.v) IN
                       [ok |-> TRUE,
                        p  |-> [offset              |-> offset,
                                len                 |-> len,
                                name                |-> name,
                                sectors_per_cluster |-> spc.v,
                                root_dir_cluster    |-> root.v,
                                entry_size          |-> IF at.entry_shift = 1
                                                        THEN "Fat16" ELSE "Fat32",
                                data_offset         |-> offset + 4096 + at.size]]

cluster_size(P) == P.sectors_per_cluster * SECTOR_SIZE

block_offset(P, b) == P.data_offset + ((b - 1) * cluster_size(P))

\* the number of allocation table entries Partition::new computes for P
ClusterCapacity(P) == (P.len \div Pow2(Log2Floor(cluster_size(P)))) + 1

(***************************************************************************)
(* Partition::block_chain_from_root, one iteration of its loop.            *)
(***************************************************************************)
IsTerminator(P, n) ==
    IF P.entry_size = "Fat16" THEN n \in {65535, 65528, 0}
                              ELSE n \in {-1, -8, 0}

EntryWidth(P) == IF P.entry_size = "Fat16" THEN 2 ELSE 4

\* the FAT entry of cluster n.  A cluster number with its top bit set (n < 0
\* here) lies at least 2^31 entries into the table, past the end of any image
\* of the model.
read_fat(P, img, n) ==
    IF n < 0 THEN [ok |-> FALSE]
    ELSE IF P.entry_size = "Fat16"
         THEN read_u16(img, P.offset + 4096 + n * 2)
         ELSE read_u32(img, P.offset + 4096 + n * 4)

\* One pass through the loop: "break" (the chain is complete), "err" (the read
\* of the table failed, after the push) or "go" (continue with nxt).
WalkIter(P, img, n, ch) ==
    IF IsTerminator(P, n) THEN [st |-> "break", chain |-> ch, nxt |-> n]
    ELSE LET r == read_fat(P, img, n) IN
         IF ~r.ok THEN [st |-> "err", chain |-> Append(ch, n), nxt |-> n]
         ELSE [st |-> "go", chain |-> Append(ch, n), nxt |-> r.v]

\* The whole walk, followed for at most fuel pushes: "ok" with the chain,
\* "err", or "running" when the loop has not ended by then.
RECURSIVE Walk(_, _, _, _, _)
Walk(P, img, n, ch, fuel) ==
    LET it == WalkIter(P, img, n, ch) IN
    IF it.st = "break" THEN [st |-> "ok", chain |-> ch]
    ELSE IF it.st = "err" THEN [st |-> "err", chain |-> it.chain]
    ELSE IF fuel = 0 THEN [st |-> "running", chain |-> it.chain]
    ELSE Walk(P, img, it.nxt, it.chain, fuel - 1)

block_chain_from_root(P, img, root) == Walk(P, img, root, << >>, MaxChain)

(***************************************************************************)
(* Entry::parse.  data is the 64-byte record, a function on 0..63.         *)
(***************************************************************************)
AllowedNameByte(b) ==
    \/ b \in {32, 36, 46, 95}
    \/ b \in 48 .. 57
    \/ b \in 65 .. 90
    \/ b \in 97 .. 122

name_bytes(data) == [i \in 0 .. MAX_FILENAME_LEN - 1 |-> data[2 + i]]

\* lines 364-374: the last value the loop gives name_len
DeletedNameLen(nb) ==
    LET stops == {i \in 0 .. MAX_FILENAME_LEN - 1 : nb[i] \in {255, 0}} IN
    IF stops = {} THEN MAX_FILENAME_LEN - 1
    ELSE CHOOSE i \in stops : \A j \in stops : i <= j

\* line 407: the limit 0x1024 * 0x1024 * 0x1024 * 4 is 282,189,551,872, above
\* every u32, so the test is false for every file_size read.
FileTooBig(file_size) == FALSE

\* lines 345-409: everything before the block chain is read
HeadOf(data) ==
    LET first_byte == data[0]
        deleted    == first_byte = DELETED_FILE_FLAG
        nb         == name_bytes(data)
        name_len   == IF deleted THEN DeletedNameLen(nb) ELSE first_byte
        file_size  == U32BE(data[48], data[49], data[50], data[51])
    IN  IF \/ first_byte = 255
           \/ first_byte = 0
           \/ (first_byte # DELETED_FILE_FLAG /\ first_byte > MAX_FILENAME_LEN)
        THEN None
        ELSE IF name_len = 0 THEN None
        ELSE IF \E i \in 0 .. name_len - 1 : ~AllowedNameByte(nb[i]) THEN None
        ELSE IF FileTooBig(file_size) THEN None
        ELSE [kind       |-> "Head",
              is_deleted |-> deleted,
              name_len   |-> name_len,
              name       |-> [i \in 1 .. name_len |-> nb[i - 1]],
              attributes |-> data[1],
              block      |-> U32BE(data[44], data[45], data[46], data[47]),
              file_size  |-> file_size]

\* HeadOf of the record, the record taken as a value
ParseHead(data) == CHOOSE h \in {HeadOf(d) : d \in {data}} : TRUE

\* lines 418-423: the chain made up for a deleted record
DeletedChain(P, first, file_size) ==
    LET whole      == file_size \div cluster_size(P)
        num_blocks == IF file_size % cluster_size(P) > 0 THEN whole + 1 ELSE whole
    IN  [i \in 1 .. num_blocks + 1 |-> first + i - 1]

\* lines 427-438
KeepBlock(P, img, b) == b # 0 /\ ~(block_offset(P, b) > img.len)

FilterChain(P, img, ch) == SelectSeq(ch, LAMBDA b : KeepBlock(P, img, b))

\* EntryAttributes::from_bits(attributes).unwrap_or(NONE): bit 0x08 is no flag
FromBits(a) == IF (a \div ATTR_UNKNOWN_BIT) % 2 = 1 THEN 0 ELSE a

\* line 445
IsDeletedField(name_len) == name_len = DELETED_FILE_FLAG

\* lines 443-451
MkEntry(h, offset, ch) ==
    [kind        |-> "Some",
     offset      |-> offset,
     is_deleted  |-> IsDeletedField(h.name_len),
     name        |-> h.name,
     size        |-> h.file_size,
     block       |-> h.block,
     attr        |-> FromBits(h.attributes),
     block_chain |-> ch]

\* Entry::parse as a whole: None, an Entry ("Some"), "Err" (the walk's read
\* failed) or "Running" (the walk has not ended after MaxChain pushes).
ParseWith(P, img, h, offset) ==
    IF h.kind = "None" THEN None
    ELSE IF h.is_deleted
    THEN MkEntry(h, offset, FilterChain(P, img, DeletedChain(P, h.block, h.file_size)))
    ELSE LET w == block_chain_from_root(P, img, h.block) IN
         IF w.st = "ok" THEN MkEntry(h, offset, FilterChain(P, img, w.chain))
         ELSE IF w.st = "err" THEN [kind |-> "Err"]
         ELSE [kind |-> "Running"]

Entry_parse(P, img, data, offset) ==
    CHOOSE e \in {ParseWith(P, img, h, offset) : h \in {ParseHead(data)}} : TRUE

is_dir(e) == (e.attr \div ATTR_DIRECTORY) % 2 = 1

(***************************************************************************)
(* Images and records the specifications start from.                       *)
(***************************************************************************)
\* a directory record with the layout Entry::parse reads
MkRecord(first_byte, attributes, name, fill, first_cluster, size) ==
    [i \in 0 .. ENTRY_SIZE - 1 |->
        IF i = 0 THEN first_byte
        ELSE IF i = 1 THEN attributes
        ELSE IF i < 2 + MAX_FILENAME_LEN
             THEN (IF i - 1 <= Len(name) THEN name[i - 1] ELSE fill)
        ELSE IF i < 48 THEN BE32(first_cluster)[i - 43]
        ELSE IF i < 52 THEN BE32(size)[i - 47]
        ELSE 0]

\* the bytes of a record as a sequence
RecordBytes(r) == [i \in 1 .. ENTRY_SIZE |-> r[i - 1]]

\* a superblock: magic, volume id, sectors_per_cluster, root cluster
Superblock(magic, sectors_per_cluster, root_cluster) ==
    BE32(magic) \o BE32(0) \o BE32(sectors_per_cluster) \o BE32(root_cluster)

END_OF_CHAIN == 65535

\* an allocation table entry of the given width; END_OF_CHAIN is all ones
FatEntry(width, v) ==
    IF width = 2 THEN BE16(v)
    ELSE IF v = END_OF_CHAIN THEN <<255, 255, 255, 255>> ELSE BE32(v)

FatValues == {0, END_OF_CHAIN} \cup (1 .. MaxCluster)

\* the table of a partition at offset off, entries 1..MaxCluster given by fat
FatTable(off, width, fat) ==
    [p \in off + 4096 + width .. off + 4096 + width * (MaxCluster + 1) - 1 |->
        FatEntry(width, fat[(p - off - 4096) \div width])[((p - off - 4096) % width) + 1]]

(***************************************************************************)
(* The values the variables of an operation hold while another operation   *)
(* is studied.                                                             *)
(***************************************************************************)
NoRecord == [i \in 0 .. ENTRY_SIZE - 1 |-> 0]

EntryIdle ==
    /\ rec = NoRecord
    /\ epc = "idle"
    /\ is_deleted = FALSE
    /\ next = 0
    /\ chain = << >>
    /\ result = None

DirIdle ==
    /\ dpc = "idle"
    /\ block = 0
    /\ position = 0
    /\ entry_data = NoRecord
    /\ entries = << >>

ScanIdle ==
    /\ scan = [lo |-> 0, hi |-> 0]
    /\ known_files = {}
    /\ wpc = [w \in 1 .. NUM_THREADS |-> "idle"]
    /\ current_offset = [w \in 1 .. NUM_THREADS |-> 0]
    /\ pending = [w \in 1 .. NUM_THREADS |-> None]
    /\ lock = 0
    /\ deleted_files = << >>
    /\ pushed = EmptyBag
    /\ joined = 0
    /\ returned = None

RunIdle ==
    /\ pc = "idle"
    /\ hdd = << >>
    /\ cur = 0
    /\ todo = << >>
    /\ video_files = 0
    /\ err = "none"
    /\ dirs = {}
    /\ files = {}
    /\ bink = None

(***************************************************************************)
(* SpecEntry: Entry::parse on one record of one partition, the walk of     *)
(* block_chain_from_root it makes for a live record taken one loop         *)
(* iteration at a time.                                                    *)
(***************************************************************************)
\* a partition at sector 1 with one sector per cluster and the given table
PartitionImage(ilen, plen, fat) ==
    LET off   == SECTOR_SIZE
        width == IF AllocationTable(plen, 1).entry_shift = 1 THEN 2 ELSE 4
    IN  Image(ilen, Put(off, Superblock(XTAF_MAGIC, 1, 1)) @@ FatTable(off, width, fat))

\* image lengths: the data region of a 16-bit partition at sector 1 starts at
\* 8704; one whole cluster, or three
ImageLens == {8704 + 512, 8704 + 3 * 512}

\* partition lengths: two clusters (16-bit table), or 65520 (32-bit table)
PartLens == {2 * 512, 65520 * 512}

FirstBytes == {0, 1, 43, DELETED_FILE_FLAG, 255}
NameStarts == {65, 47, 255}
NameFills  == {255, 66}
FileSizes  == {0, 512, 513}

InitEntry ==
    /\ \E ilen \in ImageLens, plen \in PartLens, fat \in [1 .. MaxCluster -> FatValues] :
          /\ image = PartitionImage(ilen, plen, fat)
          /\ part = Partition_new(image, SECTOR_SIZE, plen, "Data").p
    /\ \E fb \in FirstBytes, n0 \in NameStarts, fill \in NameFills,
          first \in 0 .. MaxCluster, size \in FileSizes :
          rec = MkRecord(fb, 0, <<n0>>, fill, first, size)
    /\ epc = "start"
    /\ is_deleted = FALSE
    /\ next = 0
    /\ chain = << >>
    /\ result = None
    /\ DirIdle /\ ScanIdle /\ RunIdle

\* lines 341-424, up to the call of block_chain_from_root
ParseBegin ==
    /\ epc = "start"
    /\ LET h == ParseHead(rec) IN
       IF h.kind = "None"
       THEN /\ epc' = "done"
            /\ result' = None
            /\ UNCHANGED <<is_deleted, next, chain>>
       ELSE /\ is_deleted' = h.is_deleted
            /\ result' = result
            /\ IF h.is_deleted
               THEN /\ chain' = DeletedChain(part, h.block, h.file_size)
                    /\ next' = next
                    /\ epc' = "filter"
               ELSE /\ chain' = << >>
                    /\ next' = h.block
                    /\ epc' = "walk"
    /\ UNCHANGED <<image, part, rec, dirVars, scanVars, runVars>>

\* lines 190-222: one iteration of the loop of block_chain_from_root
WalkStep ==
    /\ epc = "walk"
    /\ Len(chain) < MaxChain \/ IsTerminator(part, next)
    /\ LET it == WalkIter(part, image, next, chain) IN
       /\ chain' = it.chain
       /\ next' = it.nxt
       /\ epc' = IF it.st = "break" THEN "filter"
                 ELSE IF it.st = "err" THEN "done" ELSE "walk"
       /\ result' = IF it.st = "err" THEN [kind |-> "Err"] ELSE result
    /\ UNCHANGED <<image, part, rec, is_deleted, dirVars, scanVars, runVars>>

\* lines 425-453
ParseFinish ==
    /\ epc = "filter"
    /\ result' = MkEntry(ParseHead(rec), 0, FilterChain(part, image, chain))
    /\ epc' = "done"
    /\ UNCHANGED <<image, part, rec, is_deleted, next, chain, dirVars, scanVars, runVars>>

NextEntry == ParseBegin \/ WalkStep \/ ParseFinish

SpecEntry == InitEntry /\ [][NextEntry]_vars

\* C1: for a deleted record with first_cluster f and size s, the chain
\* Entry::parse makes up, before it is filtered, is f, f+1, ..., f+ceil(s/c)-1.
C1_DeletedChainIsCeil ==
    (epc = "filter" /\ is_deleted) =>
        LET h == ParseHead(rec)
            c == cluster_size(part)
            n == (h.file_size + c - 1) \div c
        IN  chain = [i \in 1 .. n |-> h.block + i - 1]

\* C2: a returned Entry has is_deleted = TRUE exactly when the first byte of
\* its record is 0xE5.
C2_IsDeletedIffFlag ==
    (epc = "done" /\ result.kind = "Some") =>
        (result.is_deleted <=> (rec[0] = DELETED_FILE_FLAG))

\* C3: whatever the allocation table holds, the chain block_chain_from_root
\* builds never grows beyond the cluster capacity of the partition.
C3_ChainWithinCapacity ==
    (epc \in {"walk", "filter", "done"} /\ ~is_deleted) =>
        Len(chain) <= ClusterCapacity(part)

(***************************************************************************)
(* SpecDir: Directory::read_block on one cluster, one record at a time.    *)
(***************************************************************************)
\* every cluster of the table ends its chain
EndedFat == [c \in 1 .. MaxCluster |-> END_OF_CHAIN]

LiveRecord     == MkRecord(1, 0, <<65>>, 255, 2, 512)
DeletedRecord  == MkRecord(DELETED_FILE_FLAG, 0, <<65>>, 255, 2, 512)
TooLongRecord  == MkRecord(43, 0, <<65>>, 255, 2, 512)
BadCharRecord  == MkRecord(1, 0, <<47>>, 255, 2, 512)
EndRecord      == MkRecord(255, 255, << >>, 255, 0, 0)

DirRecords == {LiveRecord, DeletedRecord, TooLongRecord, BadCharRecord,
               EndRecord, NoRecord}

\* what fills the record slots of the cluster after the first DirSlots
DirTails == {NoRecord, LiveRecord}

\* the records of a whole cluster: rs, then tail in every slot left
WithTail(P, rs, tail) ==
    [k \in 1 .. cluster_size(P) \div ENTRY_SIZE |-> IF k <= Len(rs) THEN rs[k] ELSE tail]

\* the records rs written from the start of cluster b of partition P
DirCluster(P, b, rs) ==
    [p \in block_offset(P, b) .. block_offset(P, b) + ENTRY_SIZE * Len(rs) - 1 |->
        rs[((p - block_offset(P, b)) \div ENTRY_SIZE) + 1][(p - block_offset(P, b)) % ENTRY_SIZE]]

\* image lengths: the whole first cluster, or an image that ends 32 bytes into
\* its second record
DirImageLens == {8704 + 512, 8704 + 96}

InitDir ==
    /\ \E ilen \in DirImageLens, rs \in [1 .. DirSlots -> DirRecords], tail \in DirTails :
          LET base == PartitionImage(ilen, 2 * 512, EndedFat)
              P    == Partition_new(base, SECTOR_SIZE, 2 * 512, "Data").p
          IN  /\ part = P
              /\ image = Image(ilen, DirCluster(P, 1, WithTail(P, rs, tail)) @@ base.b)
    /\ dpc = "loop"
    /\ block = 1
    /\ position = block_offset(part, 1)
    /\ entry_data = NoRecord
    /\ entries = << >>
    /\ EntryIdle /\ ScanIdle /\ RunIdle

\* cursor.read(&mut entry_data) at position p: the bytes left in the image, at
\* most 64, overwrite the head of the buffer
ReadInto(img, p, buf) ==
    LET n == IF p >= img.len THEN 0 ELSE Min(ENTRY_SIZE, img.len - p) IN
    [n |-> n, buf |-> [i \in 0 .. ENTRY_SIZE - 1 |->
                          IF i < n THEN ByteAt(img, p + i) ELSE buf[i]]]

\* what the loop of read_block does with what Entry::parse returned: TRUE to go on
Continues(e) == e.kind = "Some"

\* lines 288-298: one iteration of the loop
ReadEntry ==
    /\ dpc = "loop"
    /\ position < block_offset(part, block) + cluster_size(part)
    /\ Len(entries) < MaxEntries
    /\ LET rd == ReadInto(image, position, entry_data)
           e  == Entry_parse(part, image, rd.buf, position)
       IN  /\ entry_data' = rd.buf
           /\ position' = position + rd.n
           /\ entries' = IF e.kind = "Some" THEN Append(entries, e) ELSE entries
           /\ dpc' = IF Continues(e) THEN "loop"
                     ELSE IF e.kind = "None" THEN "done"
                     ELSE IF e.kind = "Err" THEN "failed" ELSE "walking"
    /\ UNCHANGED <<image, part, block, entryVars, scanVars, runVars>>

\* line 288 false, line 300
ReadBlockReturn ==
    /\ dpc = "loop"
    /\ ~(position < block_offset(part, block) + cluster_size(part))
    /\ dpc' = "done"
    /\ UNCHANGED <<image, part, block, position, entry_data, entries,
                   entryVars, scanVars, runVars>>

NextDir == ReadEntry \/ ReadBlockReturn

SpecDir == InitDir /\ [][NextDir]_vars

\* the 64 bytes of the image at offset p
RecordAt(img, p) == [i \in 0 .. ENTRY_SIZE - 1 |-> ByteAt(img, p + i)]

\* the record slots of the cluster read that lie whole inside the image
Slots ==
    {k \in 0 .. (cluster_size(part) \div ENTRY_SIZE) - 1 :
        block_offset(part, block) + ENTRY_SIZE * (k + 1) <= image.len}

SlotOffset(k) == block_offset(part, block) + ENTRY_SIZE * k

IsEndRecord(r) == r[0] \in {0, 255}

\* C4: a record rejected as "no entry" is skipped: every valid record before
\* the first terminator record of the cluster is among the entries returned.
C4_SkipsNoEntry ==
    dpc = "done" =>
        \A k \in Slots :
            (/\ \A j \in Slots : j < k => ~IsEndRecord(RecordAt(image, SlotOffset(j)))
             /\ Entry_parse(part, image, RecordAt(image, SlotOffset(k)), SlotOffset(k)).kind = "Some")
            => \E i \in 1 .. Len(entries) : entries[i].offset = SlotOffset(k)

(***************************************************************************)
(* find_deleted_files: the shards, the probes of one position, the workers *)
(* and the caller that joins them.                                         *)
(***************************************************************************)
XEX2 == <<88, 69, 88, 50>>
CON  == <<67, 79, 78, 32>>
LIVE == <<76, 73, 86, 69>>
PIRS == <<80, 73, 82, 83>>
BIKi == <<66, 73, 75, 105>>

Word(s) == U32BE(s[1], s[2], s[3], s[4])

magics == <<Word(XEX2), Word(CON), Word(LIVE), Word(PIRS), Word(BIKi)>>

slice_size(sc) == (sc.hi - sc.lo) \div NUM_THREADS

\* lines 37-39, for worker w = i + 1
ShardStart(sc, w) ==
    LET start_offset == sc.lo + slice_size(sc) * (w - 1)
    IN  start_offset - (start_offset % 16)

ShardEnd(sc, w) == ShardStart(sc, w) + slice_size(sc)

\* lines 80-118: the tag pushed for a magic found at p
MagicTag(magic, p) ==
    IF magic = Word(XEX2) THEN [tag |-> "XEX", offset |-> p]
    ELSE IF magic = Word(BIKi) THEN [tag |-> "Bink", offset |-> p]
    ELSE [tag |-> "STFS", offset |-> p]

\* lines 51-78: probe A at p.  A slice or an index past the end of data panics.
ProbeEntry(img, P, p) ==
    IF p + 1 >= img.len THEN [panic |-> TRUE, pushes |-> << >>]
    ELSE IF ByteAt(img, p) = DELETED_FILE_FLAG /\ ByteAt(img, p + 1) \in {0, ATTR_DIRECTORY}
    THEN IF p + ENTRY_SIZE > img.len THEN [panic |-> TRUE, pushes |-> << >>]
         ELSE LET e == Entry_parse(P, img, RecordAt(img, p), p) IN
              IF e.kind = "Some"
              THEN [panic |-> FALSE, pushes |-> << [tag |-> "FatxEntry", entry |-> e] >>]
              ELSE IF e.kind = "None" THEN [panic |-> FALSE, pushes |-> << >>]
              ELSE [panic |-> TRUE, pushes |-> << >>]
    ELSE [panic |-> FALSE, pushes |-> << >>]

\* probe B without the look at the byte at p + 5
ProbeMagicUnfiltered(img, known, p) ==
    IF p + 4 > img.len THEN [panic |-> TRUE, pushes |-> << >>]
    ELSE LET magic == read_u32(img, p).v IN
         IF \E k \in 1 .. Len(magics) : magics[k] = magic
         THEN IF p + 5 >= img.len THEN [panic |-> TRUE, pushes |-> << >>]
              ELSE IF p \in known THEN [panic |-> FALSE, pushes |-> << >>]
              ELSE [panic |-> FALSE, pushes |-> << MagicTag(magic, p) >>]
         ELSE [panic |-> FALSE, pushes |-> << >>]

\* lines 80-118: probe B at p
ProbeMagic(img, known, p) ==
    IF p + 4 > img.len THEN [panic |-> TRUE, pushes |-> << >>]
    ELSE LET magic == read_u32(img, p).v IN
         IF \E k \in 1 .. Len(magics) : magics[k] = magic
         THEN IF p + 5 >= img.len THEN [panic |-> TRUE, pushes |-> << >>]
              ELSE IF ByteAt(img, p + 5) \in {32, 46} THEN [panic |-> FALSE, pushes |-> << >>]
              ELSE IF p \in known THEN [panic |-> FALSE, pushes |-> << >>]
              ELSE [panic |-> FALSE, pushes |-> << MagicTag(magic, p) >>]
         ELSE [panic |-> FALSE, pushes |-> << >>]

\* one iteration of the loop of lines 50-121 at p: what it pushes, in order,
\* and whether it panics after that
ProbeAt(img, P, known, p) ==
    LET a == ProbeEntry(img, P, p) IN
    IF a.panic THEN a
    ELSE LET b == ProbeMagic(img, known, p) IN
         [panic |-> b.panic, pushes |-> a.pushes \o b.pushes]

\* the positions a worker that stands at p visits below end (line 120)
Positions(p, end) == {q \in p .. end - 1 : (q - p) % STRIDE = 0}

\* where the loop of a worker that stands at p leaves the range
LoopExit(p, end) ==
    IF ~(p < end) THEN p ELSE p + STRIDE * ((end - p + STRIDE - 1) \div STRIDE)

Least(S) == CHOOSE q \in S : \A r \in S : q <= r

\* the positions from p (below end) whose iteration pushes or panics
Events(img, P, known, p, end) ==
    {q \in Positions(p, end) :
        \E o \in {ProbeAt(img, P, known, q)} : o.panic \/ o.pushes # << >>}

\* The iterations of a worker from p on that push nothing and do not panic
\* touch no shared state; they are taken together.  The first position from p
\* (below end) whose iteration pushes or panics, or the loop's exit if there
\* is none.
NextEvent(img, P, known, p, end) ==
    CHOOSE q \in {IF ev = {} THEN LoopExit(p, end) ELSE Least(ev) :
                    ev \in {Events(img, P, known, p, end)}} : TRUE

\* what the iterations at the positions S push, in the order of the positions
RECURSIVE PushesAt(_, _, _, _)
PushesAt(img, P, known, S) ==
    IF S = {} THEN << >>
    ELSE ProbeAt(img, P, known, Least(S)).pushes \o PushesAt(img, P, known, S \ {Least(S)})

\* the events of a worker up to its first panic
UntilPanic(img, P, known, ev) ==
    LET panics == {q \in ev : ProbeAt(img, P, known, q).panic} IN
    IF panics = {} THEN ev ELSE {q \in ev : q <= Least(panics)}

\* everything a worker pushes from p on, in order, until it panics or ends
ShardPushes(img, P, known, p, end) ==
    CHOOSE s \in {PushesAt(img, P, known, UntilPanic(img, P, known, ev)) :
                    ev \in {Events(img, P, known, p, end)}} : TRUE

\* deleted_files.push(d)
PushReplacing(list, d) == << d >>
PushDiscovery(list, d) == Append(list, d)

\* thread.join() returns once the thread has ended, by return or by panic
Ended(st) == st \in {"done", "panicked"}

Workers == 1 .. NUM_THREADS

\* where a worker stands when its loop has come to position q: ended, about
\* to push what the iteration at q pushes, or panicked in it
ArriveAt(w, q) ==
    IF ~(q < ShardEnd(scan, w))
    THEN [wpc |-> "done", at |-> q, o |-> [panic |-> FALSE, pushes |-> << >>]]
    ELSE [wpc |-> IF ProbeAt(image, part, known_files, q).pushes # << >>
                  THEN "lock" ELSE "panicked",
          at  |-> q,
          o   |-> ProbeAt(image, part, known_files, q)]

\* a worker run on from position p to its next push, its panic or its end
Arrive(w, p) ==
    CHOOSE r \in {ArriveAt(w, q) :
                    q \in {NextEvent(image, part, known_files, p, ShardEnd(scan, w))}} : TRUE

\* a worker runs from its start to its first push, its panic or its end
Probe(w) ==
    /\ wpc[w] = "probe"
    /\ \E r \in {Arrive(w, current_offset[w])} :
          /\ wpc' = [wpc EXCEPT ![w] = r.wpc]
          /\ current_offset' = [current_offset EXCEPT ![w] = r.at]
          /\ pending' = [pending EXCEPT ![w] = r.o]
    /\ UNCHANGED <<image, part, scan, known_files, lock, deleted_files, pushed,
                   joined, returned, entryVars, dirVars, runVars>>

\* deleted_files.write().unwrap()
Acquire(w) ==
    /\ wpc[w] = "lock"
    /\ lock = 0
    /\ lock' = w
    /\ wpc' = [wpc EXCEPT ![w] = "push"]
    /\ UNCHANGED <<image, part, scan, known_files, current_offset, pending,
                   deleted_files, pushed, joined, returned, entryVars, dirVars, runVars>>

\* where a worker stands once one push of the iteration at p is made, o being
\* what is left of the iteration: about to push again, panicked, or run on
AfterPush(w, o, p) ==
    IF o.pushes # << >> THEN [wpc |-> "lock", at |-> p, o |-> o]
    ELSE IF o.panic THEN [wpc |-> "panicked", at |-> p, o |-> o]
    ELSE Arrive(w, p + STRIDE)

\* the push, and the guard dropped at the end of its block; then the rest of
\* the iteration and the iterations after it that push nothing
Push(w) ==
    /\ wpc[w] = "push"
    /\ \E nx \in {AfterPush(w, [pending[w] EXCEPT !.pushes = Tail(@)], current_offset[w])} :
          /\ deleted_files' = PushDiscovery(deleted_files, Head(pending[w].pushes))
          /\ pushed' = pushed (+) SetToBag({Head(pending[w].pushes)})
          /\ lock' = 0
          /\ pending' = [pending EXCEPT ![w] = nx.o]
          /\ wpc' = [wpc EXCEPT ![w] = nx.wpc]
          /\ current_offset' = [current_offset EXCEPT ![w] = nx.at]
    /\ UNCHANGED <<image, part, scan, known_files, joined, returned,
                   entryVars, dirVars, runVars>>

\* lines 129-132: thread.join(), its Result dropped
Join ==
    /\ returned = None
    /\ joined < NUM_THREADS
    /\ Ended(wpc[joined + 1])
    /\ joined' = joined + 1
    /\ UNCHANGED <<image, part, scan, known_files, wpc, current_offset, pending, lock,
                   deleted_files, pushed, returned, entryVars, dirVars, runVars>>

\* lines 134-135: deleted_files.read().unwrap(), entries.clone()
Return ==
    /\ returned = None
    /\ joined = NUM_THREADS
    /\ lock = 0
    /\ returned' = [kind |-> "Vec", list |-> deleted_files]
    /\ UNCHANGED <<image, part, scan, known_files, wpc, current_offset, pending, lock,
                   deleted_files, pushed, joined, entryVars, dirVars, runVars>>

NextScan == (\E w \in Workers : Probe(w) \/ Acquire(w) \/ Push(w)) \/ Join \/ Return

(***************************************************************************)
(* SpecScan: find_deleted_files over a partition at sector 1, its eight    *)
(* workers interleaved.                                                    *)
(***************************************************************************)
\* The partition scanned lies at sector 1 and claims 18 sectors; its root
\* cluster is 0, so that its root directory is read as empty without a look at
\* the allocation table, and the image may end shortly after the superblock.
ScanPartLen == 18 * SECTOR_SIZE

\* the image ends 256 or 272 bytes into the partition
ScanImageLens == {SECTOR_SIZE + 256, SECTOR_SIZE + 272}

\* what may lie in the image, each at a 16-byte boundary: a Bink file, a
\* deleted record, and a 0xE5 byte 48 bytes before the end of the image
BinkPlant         == Put(544, BIKi \o LE32(256))
DeletedPlant      == Put(640, RecordBytes(DeletedRecord))
TailPlant(ilen)   == Put(ilen - 48, <<DELETED_FILE_FLAG>>)
\* always there: XEX2
XexPlant          == Put(608, XEX2)

Plants(ilen) == {BinkPlant, DeletedPlant, TailPlant(ilen)}

RECURSIVE Merge(_)
Merge(fs) ==
    IF fs = {} THEN << >>
    ELSE LET f == CHOOSE g \in fs : TRUE IN f @@ Merge(fs \ {f})

ScanImage(ilen, chosen) ==
    Image(ilen, Merge(chosen) @@ XexPlant
                @@ Put(SECTOR_SIZE, Superblock(XTAF_MAGIC, 1, 0)))

\* main, lines 63-71: the range is the partition's, cut at the end of the image
ScanRange(P, img) == [lo |-> P.offset, hi |-> Min(P.offset + P.len, img.len)]

InitScan ==
    /\ \E ilen \in ScanImageLens :
          \E chosen \in SUBSET Plants(ilen) : image = ScanImage(ilen, chosen)
    /\ part = Partition_new(image, SECTOR_SIZE, ScanPartLen, "Data").p
    /\ scan = ScanRange(part, image)
    /\ known_files \in {{}, {608}}
    /\ wpc = [w \in Workers |-> "probe"]
    /\ current_offset = [w \in Workers |-> ShardStart(scan, w)]
    /\ pending = [w \in Workers |-> [panic |-> FALSE, pushes |-> << >>]]
    /\ lock = 0
    /\ deleted_files = << >>
    /\ pushed = EmptyBag
    /\ joined = 0
    /\ returned = None
    /\ EntryIdle /\ DirIdle /\ RunIdle

SpecScan == InitScan /\ [][NextScan]_vars

\* C7: after a worker has panicked, find_deleted_files returns no list.
C7_NoReturnAfterWorkerFailure ==
    returned # None => \A w \in Workers : wpc[w] # "panicked"

\* the elements of a sequence, each with the number of times it occurs
SeqBag(s) ==
    [d \in {s[i] : i \in DOMAIN s} |-> Cardinality({i \in DOMAIN s : s[i] = d})]

RECURSIVE BagSum(_, _)
BagSum(f, ws) ==
    IF ws = {} THEN EmptyBag
    ELSE LET w == CHOOSE x \in ws : TRUE IN f[w] (+) BagSum(f, ws \ {w})

\* what the eight shards push, as fixed by the image, the range and the known
\* files alone
ExpectedBag ==
    BagSum([w \in Workers |->
               SeqBag(ShardPushes(image, part, known_files,
                                  ShardStart(scan, w), ShardEnd(scan, w)))], Workers)

DiscoveryOffset(d) == IF d.tag = "FatxEntry" THEN d.entry.offset ELSE d.offset

\* C10: the list returned is read after every worker has ended; it holds every
\* discovery a worker appended, as many times as it was appended; and that
\* multiset is fixed by the inputs, whatever the interleaving.
C10_MergeKeepsEveryAppend ==
    returned # None =>
        /\ \A w \in Workers : Ended(wpc[w])
        /\ SeqBag(returned.list) = pushed
        /\ pushed = ExpectedBag

\* C10 witness: a list returned in which a discovery at a higher offset comes before one at a
\* lower offset: two workers' appends, merged in the order they were made
C10_Witness ==
    /\ returned # None
    /\ \E i, j \in DOMAIN returned.list :
          /\ i < j
          /\ DiscoveryOffset(returned.list[i]) > DiscoveryOffset(returned.list[j])

(***************************************************************************)
(* devkit_partitions, Directory::parse, Entry::write_to_file and the steps *)
(* of main.                                                                *)
(***************************************************************************)
\* a decoding that drops a system partition it cannot decode
devkit_partitions_lenient(img) ==
    IF img.len < MIN_DISK_LENGTH
    THEN [ok |-> FALSE, err |-> "InvalidDiskLength"]
    ELSE LET data == Partition_new(img, read_u32(img, 8).v * SECTOR_SIZE,
                                   read_u32(img, 12).v * SECTOR_SIZE, "Data")
             sys  == Partition_new(img, read_u32(img, 16).v * SECTOR_SIZE,
                                   read_u32(img, 20).v * SECTOR_SIZE, "System")
         IN  IF ~data.ok THEN data
             ELSE IF ~sys.ok THEN [ok |-> TRUE, partitions |-> <<data.p>>]
             ELSE [ok |-> TRUE, partitions |-> <<data.p, sys.p>>]

\* Partition::new for both descriptors of the header, the first error returned
devkit_partitions(img) ==
    IF img.len < MIN_DISK_LENGTH
    THEN [ok |-> FALSE, err |-> "InvalidDiskLength"]
    ELSE LET data == Partition_new(img, read_u32(img, 8).v * SECTOR_SIZE,
                                   read_u32(img, 12).v * SECTOR_SIZE, "Data")
             sys  == Partition_new(img, read_u32(img, 16).v * SECTOR_SIZE,
                                   read_u32(img, 20).v * SECTOR_SIZE, "System")
         IN  IF ~data.ok THEN data
             ELSE IF ~sys.ok THEN sys
             ELSE [ok |-> TRUE, partitions |-> <<data.p, sys.p>>]

\* Directory::read_block as a whole: the loop of ReadEntry, followed for at
\* most MaxEntries entries.  "ok" with the entries, "err", or "running".
RECURSIVE ReadLoop(_, _, _, _, _, _)
AfterParse(P, img, b, pos, acc, rd, e) ==
    IF Continues(e) THEN ReadLoop(P, img, b, pos + rd.n, rd.buf, Append(acc, e))
    ELSE IF e.kind = "None" THEN [st |-> "ok", entries |-> acc]
    ELSE IF e.kind = "Err" THEN [st |-> "err", entries |-> acc]
    ELSE [st |-> "running", entries |-> acc]

AfterRead(P, img, b, pos, acc, rd) ==
    CHOOSE r \in {AfterParse(P, img, b, pos, acc, rd, e) :
                    e \in {Entry_parse(P, img, rd.buf, pos)}} : TRUE

ReadLoop(P, img, b, pos, buf, acc) ==
    IF ~(pos < block_offset(P, b) + cluster_size(P)) THEN [st |-> "ok", entries |-> acc]
    ELSE IF ~(Len(acc) < MaxEntries) THEN [st |-> "running", entries |-> acc]
    ELSE CHOOSE r \in {AfterRead(P, img, b, pos, acc, rd) :
                         rd \in {ReadInto(img, pos, buf)}} : TRUE

read_block(P, img, b) == ReadLoop(P, img, b, block_offset(P, b), NoRecord, << >>)

\* Directory::parse: the entries of every cluster of the chain, in order; a
\* read_block that fails is a panic ("failed to read block")
RECURSIVE ParseBlocks(_, _, _, _)
ParseBlocks(P, img, ch, acc) ==
    IF ch = << >> THEN [st |-> "ok", entries |-> acc]
    ELSE LET r == read_block(P, img, Head(ch)) IN
         IF r.st = "ok" THEN ParseBlocks(P, img, Tail(ch), acc \o r.entries)
         ELSE IF r.st = "err" THEN [st |-> "panic", entries |-> acc]
         ELSE [st |-> "running", entries |-> acc]

Directory_parse(P, img, ch) == ParseBlocks(P, img, ch, << >>)

\* Partition::root_dir: the walk from the root cluster, then Directory::parse.
\* "ok" with the entries, "err" (the ? of main), "panic" or "running".
root_dir(P, img) ==
    LET w == block_chain_from_root(P, img, P.root_dir_cluster) IN
    IF w.st = "ok" THEN Directory_parse(P, img, w.chain)
    ELSE [st |-> w.st, entries |-> << >>]

\* Output paths: the directory below the output directory, and the file's
\* name: the name of an entry, or video_file_<video>.bik
EntryPath(dir, e) == [dir |-> dir, name |-> e.name, video |-> -1]
VideoPath(n)      == [dir |-> <<"deleted_files">>, name |-> << >>, video |-> n]

\* block_data(b): the slice is out of range when the cluster ends past the image
BlockDataPanics(P, img, b) == block_offset(P, b) + cluster_size(P) > img.len

\* lines 477-488: some cluster of the chain lies past the partition or the image
PastExtent(P, img, e) ==
    \E k \in DOMAIN e.block_chain :
        \/ e.block_chain[k] = 0
        \/ block_offset(P, e.block_chain[k]) > P.offset + P.len
        \/ block_offset(P, e.block_chain[k]) > img.len

\* lines 492-497: flat_map and take(size) fetch cluster k of the chain only
\* while fewer than size bytes have been taken
Fetched(P, e) ==
    {k \in DOMAIN e.block_chain : (k - 1) * cluster_size(P) < e.size}

\* take(size) with the truncation to size left out
WrittenLengthWhole(P, e) == Len(e.block_chain) * cluster_size(P)

WrittenLength(P, e) == Min(e.size, Len(e.block_chain) * cluster_size(P))

\* the clusters whose data the file holds, in the order taken
TakenClusters(P, e) == SubSeq(e.block_chain, 1, Cardinality(Fetched(P, e)))

\* Entry::write_to_file(path, partition) on the output fs = [dirs, files]:
\* the output after it, and whether it panicked.  A file is created (line 490)
\* before its data is collected, and written (line 499) after.
write_to_file(e, path, P, img, fs, pass) ==
    IF \E f \in fs.files : f.path = path THEN [fs |-> fs, panic |-> FALSE]
    ELSE LET ds == IF path.dir # << >> /\ path.dir \notin fs.dirs
                   THEN fs.dirs \cup {path.dir} ELSE fs.dirs
         IN  IF PastExtent(P, img, e)
             THEN [fs |-> [dirs |-> ds, files |-> fs.files], panic |-> FALSE]
             ELSE IF \E k \in Fetched(P, e) : BlockDataPanics(P, img, e.block_chain[k])
             THEN [fs    |-> [dirs  |-> ds,
                              files |-> fs.files \cup
                                  {[path |-> path, length |-> 0, clusters |-> << >>,
                                    written |-> FALSE,
                                    offset |-> e.offset, pass |-> pass]}],
                   panic |-> TRUE]
             ELSE [fs    |-> [dirs  |-> ds,
                              files |-> fs.files \cup
                                  {[path |-> path, length |-> WrittenLength(P, e),
                                    clusters |-> TakenClusters(P, e),
                                    written |-> TRUE,
                                    offset |-> e.offset, pass |-> pass]}],
                   panic |-> FALSE]

\* print_dir over the entries of a directory whose records are all files: each
\* is written below dir; "subdir" when an entry is a directory (its descent is
\* not followed)
RECURSIVE print_dir(_, _, _, _, _, _)
print_dir(es, dir, P, img, fs, pass) ==
    IF es = << >> THEN [st |-> "ok", fs |-> fs]
    ELSE IF is_dir(Head(es)) THEN [st |-> "subdir", fs |-> fs]
    ELSE LET w == write_to_file(Head(es), EntryPath(dir, Head(es)), P, img, fs, pass) IN
         IF w.panic THEN [st |-> "panic", fs |-> w.fs]
         ELSE print_dir(Tail(es), dir, P, img, w.fs, pass)

\* find_deleted_files as main sees it: the lists it may return, the pushes of
\* every worker kept in the worker's order
RECURSIVE Interleavings(_)
Interleavings(qs) ==
    IF \A w \in DOMAIN qs : qs[w] = << >> THEN {<< >>}
    ELSE UNION {{<<Head(qs[w])>> \o r : r \in Interleavings([qs EXCEPT ![w] = Tail(qs[w])])} :
                  w \in {v \in DOMAIN qs : qs[v] # << >>}}

find_deleted_files(img, P, known, sc) ==
    Interleavings([w \in Workers |->
        ShardPushes(img, P, known, ShardStart(sc, w), ShardEnd(sc, w))])

\* main, lines 78-176: one discovery d materialized; out holds the output and
\* the counters before it
Materialize(d, P, img, out) ==
    LET ds == out.dirs \cup {<<"deleted_files">>}
        go == [out EXCEPT !.dirs = ds]
    IN  IF d.tag = "FatxEntry"
        THEN IF is_dir(d.entry) THEN [go EXCEPT !.pc = "subdir"]
             ELSE LET w == write_to_file(d.entry, EntryPath(<< >>, d.entry), P, img,
                                         [dirs |-> ds, files |-> out.files], "carve")
                  IN  [go EXCEPT !.dirs = w.fs.dirs, !.files = w.fs.files,
                                 !.pc = IF w.panic THEN "failed" ELSE @,
                                 !.err = IF w.panic THEN "panic" ELSE @]
        ELSE IF d.tag = "XEX" THEN go
        ELSE IF d.tag = "STFS" THEN [go EXCEPT !.pc = "stfs"]
        ELSE IF d.offset + 4 > img.len
        THEN [go EXCEPT !.pc = "failed", !.err = "panic"]
        ELSE LET file_size == U32LE(ByteAt(img, d.offset), ByteAt(img, d.offset + 1),
                                    ByteAt(img, d.offset + 2), ByteAt(img, d.offset + 3))
                 seen      == [go EXCEPT !.bink = [offset |-> d.offset, file_size |-> file_size]]
             IN  IF d.offset + file_size + 8 > img.len
                 THEN [seen EXCEPT !.pc = "failed", !.err = "panic"]
                 ELSE [seen EXCEPT
                         !.files = {f \in @ : f.path # VideoPath(out.video_files)} \cup
                                   {[path |-> VideoPath(out.video_files),
                                     length |-> file_size + 8, clusters |-> << >>,
                                     written |-> TRUE,
                                     offset |-> d.offset, pass |-> "carve"]},
                         !.video_files = @ + 1]

(***************************************************************************)
(* SpecRun: main on one image, from devkit_partitions to the last          *)
(* discovery materialized.  The root directories hold file records only.   *)
(***************************************************************************)
YTAF_MAGIC == XTAF_MAGIC + 16777216

\* the header: version words, then start sector and sector count of the data
\* and of the system partition
Header(s0, n0, s1, n1) ==
    BE16(1) \o BE16(0) \o BE16(0) \o BE16(0) \o BE32(s0) \o BE32(n0) \o BE32(s1) \o BE32(n1)

\* The data partition lies at sector 1: table at 0x1200, root directory in
\* cluster 1 at 8704, the file's data in cluster 2.  The system partition lies
\* at sector 20 with an empty root directory; the image ends after its first
\* sector.
SystemSector == 20
RunImageLen  == (SystemSector + 1) * SECTOR_SIZE

\* start sector and sector count the header gives for the data partition
DataSectors == {1, 30}
DataCounts  == {SystemSector - 1, 40}
RunMagics   == {XTAF_MAGIC, YTAF_MAGIC}
\* the root directory: empty, the file, or the file deleted
RootRecords == {<< >>, <<LiveRecord>>, <<DeletedRecord>>}

RunFat(root) ==
    [c \in 1 .. MaxCluster |->
        IF c = 1 \/ (c = 2 /\ root = <<LiveRecord>>) THEN END_OF_CHAIN ELSE 0]

RunImage(s0, n0, dm, sm, root, bk) ==
    LET base == PartitionImage(RunImageLen, (SystemSector - 1) * SECTOR_SIZE, RunFat(root))
        P    == Partition_new(base, SECTOR_SIZE, (SystemSector - 1) * SECTOR_SIZE, "Data").p
    IN  Image(RunImageLen,
              Put(0, Header(s0, n0, SystemSector, 1))
              @@ Put(SECTOR_SIZE, BE32(dm))
              @@ Put(SystemSector * SECTOR_SIZE, Superblock(sm, 1, 0))
              @@ (IF bk THEN Put(2 * SECTOR_SIZE, BIKi \o LE32(256)) ELSE << >>)
              @@ (IF root = << >> THEN << >> ELSE DirCluster(P, 1, root))
              @@ base.b)

\* an image shorter than the header
ShortImage == Image(16, Put(0, BE16(1)))

InitRun ==
    /\ \/ \E s0 \in DataSectors, n0 \in DataCounts, dm \in RunMagics, sm \in RunMagics,
             root \in RootRecords, bk \in BOOLEAN :
             image = RunImage(s0, n0, dm, sm, root, bk)
       \/ image = ShortImage
    /\ part = None
    /\ pc = "start"
    /\ hdd = << >>
    /\ cur = 0
    /\ todo = << >>
    /\ video_files = 0
    /\ err = "none"
    /\ dirs = {}
    /\ files = {}
    /\ bink = None
    /\ EntryIdle /\ DirIdle /\ ScanIdle

\* line 38: devkit_partitions(&mmap).unwrap()
Decode ==
    /\ pc = "start"
    /\ \E r \in {devkit_partitions(image)} :
          IF r.ok
          THEN /\ hdd' = r.partitions
               /\ pc' = "live"
               /\ cur' = 1
               /\ err' = err
          ELSE /\ pc' = "failed"
               /\ err' = r.err
               /\ UNCHANGED <<hdd, cur>>
    /\ UNCHANGED <<image, part, todo, video_files, dirs, files, bink>>
    /\ UNCHANGED <<entryVars, dirVars, scanVars>>

\* what a root_dir that did not return a directory makes of the run
RootFailure(st) == IF st = "running" THEN "hung" ELSE "failed"
RootError(st)   == IF st = "err" THEN "IoError" ELSE IF st = "panic" THEN "panic" ELSE err

\* lines 41-45, one partition: root_dir()? and print_dir
ExtractLive ==
    /\ pc = "live"
    /\ \E rd \in {root_dir(hdd[cur], image)} :
          IF rd.st = "ok"
          THEN \E r \in {print_dir(rd.entries, <<hdd[cur].name>>, hdd[cur], image,
                                   [dirs |-> dirs, files |-> files], "live")} :
                  /\ dirs' = r.fs.dirs
                  /\ files' = r.fs.files
                  /\ IF r.st = "ok"
                     THEN /\ pc' = IF cur < Len(hdd) THEN "live" ELSE "scan"
                          /\ cur' = IF cur < Len(hdd) THEN cur + 1 ELSE 1
                          /\ err' = err
                     ELSE /\ pc' = IF r.st = "panic" THEN "failed" ELSE r.st
                          /\ err' = IF r.st = "panic" THEN "panic" ELSE err
                          /\ cur' = cur
          ELSE /\ pc' = RootFailure(rd.st)
               /\ err' = RootError(rd.st)
               /\ UNCHANGED <<cur, dirs, files>>
    /\ UNCHANGED <<image, part, hdd, todo, video_files, bink>>
    /\ UNCHANGED <<entryVars, dirVars, scanVars>>

\* lines 47-76, one partition: the known entries, the range, find_deleted_files
Scan ==
    /\ pc = "scan"
    /\ \E rd \in {root_dir(hdd[cur], image)} :
          IF rd.st = "ok"
          THEN IF \E k \in DOMAIN rd.entries : is_dir(rd.entries[k])
               THEN /\ pc' = "subdir"
                    /\ UNCHANGED <<todo, err>>
               ELSE /\ todo' \in find_deleted_files(image, hdd[cur],
                                   {rd.entries[k].offset : k \in DOMAIN rd.entries},
                                   ScanRange(hdd[cur], image))
                    /\ pc' = "carve"
                    /\ err' = err
          ELSE /\ pc' = RootFailure(rd.st)
               /\ err' = RootError(rd.st)
               /\ todo' = todo
    /\ video_files' = 0
    /\ UNCHANGED <<image, part, hdd, cur, dirs, files, bink>>
    /\ UNCHANGED <<entryVars, dirVars, scanVars>>

\* lines 78-176, one discovery
Carve ==
    /\ pc = "carve"
    /\ todo # << >>
    /\ \E m \in {Materialize(Head(todo), hdd[cur], image,
                             [pc |-> pc, err |-> err, dirs |-> dirs, files |-> files,
                              video_files |-> video_files, bink |-> bink])} :
          /\ pc' = m.pc
          /\ err' = m.err
          /\ dirs' = m.dirs
          /\ files' = m.files
          /\ video_files' = m.video_files
          /\ bink' = m.bink
    /\ todo' = Tail(todo)
    /\ UNCHANGED <<image, part, hdd, cur>>
    /\ UNCHANGED <<entryVars, dirVars, scanVars>>

\* line 47 and line 180: the next partition, or Ok(())
NextPartition ==
    /\ pc = "carve"
    /\ todo = << >>
    /\ pc' = IF cur < Len(hdd) THEN "scan" ELSE "done"
    /\ cur' = IF cur < Len(hdd) THEN cur + 1 ELSE cur
    /\ UNCHANGED <<image, part, hdd, todo, video_files, err, dirs, files, bink>>
    /\ UNCHANGED <<entryVars, dirVars, scanVars>>

NextRun == Decode \/ ExtractLive \/ Scan \/ Carve \/ NextPartition

SpecRun == InitRun /\ [][NextRun]_vars

\* C5: the live extraction pass writes no file for a record of the root
\* directory whose first byte is 0xE5: every file that pass has written comes
\* from a record whose first byte is not 0xE5.
C5_LivePassSkipsDeleted ==
    \A f \in files :
        f.pass = "live" => ByteAt(image, f.offset) # DELETED_FILE_FLAG

\* C6: no Partition value is produced for a descriptor whose extent ends past
\* the image: every partition decoded lies within the image.
C6_ExtentWithinImage ==
    \A i \in DOMAIN hdd : hdd[i].offset + hdd[i].len <= image.len

\* the little-endian u32 stored at p
StoredLE32(p) ==
    U32LE(ByteAt(image, p), ByteAt(image, p + 1), ByteAt(image, p + 2), ByteAt(image, p + 3))

\* C8: for a Bink discovery at p the materializer takes the body length n from
\* the little-endian u32 at p + 4 and writes the n + 8 bytes from p.
C8_BinkLengthAtPlus4 ==
    bink # None =>
        /\ bink.file_size = StoredLE32(bink.offset + 4)
        /\ \E f \in files : /\ f.pass = "carve"
                            /\ f.offset = bink.offset
                            /\ f.length = bink.file_size + 8

\* the superblock of partition i (1 the data, 2 the system partition) as the
\* header places it, and whether its magic can be read and is not XTAF
DescriptorOffset(i) == read_u32(image, 8 * i).v * SECTOR_SIZE

MagicMismatch(i) ==
    /\ image.len >= MIN_DISK_LENGTH
    /\ read_u32(image, DescriptorOffset(i)).ok
    /\ read_u32(image, DescriptorOffset(i)).v # XTAF_MAGIC

DecodingFailed == pc = "failed" /\ hdd = << >>

\* C9 as stated: if the magic of either partition is not XTAF, the run fails
\* with InvalidFilesystemMagic, and nothing is created or written.
C9_FailsWithInvalidMagic ==
    (pc # "start" /\ (MagicMismatch(1) \/ MagicMismatch(2))) =>
        /\ DecodingFailed
        /\ err = "InvalidFilesystemMagic"
        /\ dirs = {} /\ files = {}

\* C9 amended: if the magic of either partition is not XTAF, the run fails in
\* superblock decoding, with InvalidFilesystemMagic unless the superblock of
\* the data partition cannot be read, in which case with that partition's
\* InvalidDiskLength or IoError; in a run in which superblock decoding fails
\* no directory is created and no file is written.
C9_DecodingFailurePrecedesOutput ==
    /\ (pc # "start" /\ (MagicMismatch(1) \/ MagicMismatch(2))) =>
          /\ DecodingFailed
          /\ \/ err = "InvalidFilesystemMagic"
             \/ /\ ~read_u32(image, DescriptorOffset(1)).ok
                /\ err \in {"InvalidDiskLength", "IoError"}
    /\ DecodingFailed => dirs = {} /\ files = {}

\* C9 witness: the run has failed with InvalidFilesystemMagic on the system
\* partition's magic alone, over a data partition whose root directory holds a
\* file
C9_Witness ==
    /\ DecodingFailed
    /\ err = "InvalidFilesystemMagic"
    /\ MagicMismatch(2) /\ ~MagicMismatch(1)
    /\ read_u32(image, DescriptorOffset(1)).ok
    /\ ByteAt(image, 8704) = 1
    /\ dirs = {} /\ files = {}

(***************************************************************************)
(* SpecProbe: one iteration of a worker's loop, at the position right      *)
(* after the superblock, over what may stand there.                        *)
(***************************************************************************)
ProbePos == SECTOR_SIZE + 32

\* four bytes at the position: the five signatures, a near miss, and zeros
ProbeWords == {XEX2, CON, LIVE, PIRS, BIKi, <<88, 69, 88, 49>>, <<0, 0, 0, 0>>}
\* the byte at p + 5
ProbeFifth == {32, 46, 0, 65}
\* the image ends inside the signature, right after it, at p + 5, or later
ProbeImageLens == {ProbePos + 2, ProbePos + 4, ProbePos + 5, ProbePos + 6, ProbePos + 256}
\* the offsets of the known live entries
ProbeKnown == {{}, {ProbePos}, {ProbePos + STRIDE}}

\* the image of length ilen with f in it, nothing at or past its end
CutImage(ilen, f) == Image(ilen, [q \in {r \in DOMAIN f : r < ilen} |-> f[q]])

InitProbe ==
    /\ \E word \in ProbeWords, fifth \in ProbeFifth, ilen \in ProbeImageLens :
          image = CutImage(ilen, Put(ProbePos, word \o <<0, fifth>>)
                                 @@ Put(SECTOR_SIZE, Superblock(XTAF_MAGIC, 1, 0)))
    /\ part = Partition_new(image, SECTOR_SIZE, ScanPartLen, "Data").p
    /\ scan = [lo |-> ProbePos, hi |-> ProbePos + STRIDE]
    /\ known_files \in ProbeKnown
    /\ wpc = [w \in Workers |-> IF w = 1 THEN "probe" ELSE "idle"]
    /\ current_offset = [w \in Workers |-> IF w = 1 THEN ProbePos ELSE 0]
    /\ pending = [w \in Workers |-> [panic |-> FALSE, pushes |-> << >>]]
    /\ lock = 0
    /\ deleted_files = << >>
    /\ pushed = EmptyBag
    /\ joined = 0
    /\ returned = None
    /\ EntryIdle /\ DirIdle /\ RunIdle

\* lines 50-119 at current_offset: what the iteration pushes, or its panic
Iterate ==
    /\ wpc[1] = "probe"
    /\ \E o \in {ProbeAt(image, part, known_files, current_offset[1])} :
          /\ pending' = [pending EXCEPT ![1] = o]
          /\ wpc' = [wpc EXCEPT ![1] = IF o.panic THEN "panicked" ELSE "probed"]
    /\ UNCHANGED <<image, part, scan, known_files, current_offset, lock, deleted_files,
                   pushed, joined, returned, entryVars, dirVars, runVars>>

NextProbe == Iterate

SpecProbe == InitProbe /\ [][NextProbe]_vars

\* the four bytes at p, and the container discoveries of an iteration
BytesAt(p) == <<ByteAt(image, p), ByteAt(image, p + 1), ByteAt(image, p + 2), ByteAt(image, p + 3)>>

Containers(o) == SelectSeq(o.pushes, LAMBDA d : d.tag # "FatxEntry")

SignatureTag(word) ==
    IF word = XEX2 THEN "XEX" ELSE IF word = BIKi THEN "Bink" ELSE "STFS"

ContainerDue(p) ==
    /\ BytesAt(p) \in {XEX2, CON, LIVE, PIRS, BIKi}
    /\ ByteAt(image, p + 5) \notin {32, 46}
    /\ p \notin known_files

NameBeforeTerminator(data) ==
    LET stops == {i \in 0 .. MAX_FILENAME_LEN - 1 : data[2 + i] \in {255, 0}}
        n     == IF stops = {} THEN MAX_FILENAME_LEN ELSE Least(stops)
    IN  [i \in 1 .. n |-> data[1 + i]]

\* C12: every Entry returned by Entry::parse has a name of 1 to 0x2A bytes, all
\* of the allowed set, and a size of at most 4 GiB; for a deleted record the
\* name is the bytes of the name field before the first 0xFF or 0x00 byte.
C12_NameAndSizeBounds ==
    (epc = "done" /\ result.kind = "Some") =>
        /\ Len(result.name) \in 1 .. MAX_FILENAME_LEN
        /\ \A i \in DOMAIN result.name : AllowedNameByte(result.name[i])
        /\ result.size \div 4 <= 1073741824
        /\ rec[0] = DELETED_FILE_FLAG => result.name = NameBeforeTerminator(rec)

(***************************************************************************)
(* SpecWrite: one file record of a root directory parsed and written, as   *)
(* print_dir does for a file entry.                                        *)
(***************************************************************************)
\* The partition lies at sector 1 and claims 19 sectors; the record stands
\* first in cluster 1 (offset 8704) and names cluster 2 (offset 9216); the
\* table chains WriteChain clusters from cluster 2.
WritePartLen == 19 * SECTOR_SIZE
WriteChains  == 1 .. 3
\* sizes: nothing, a few bytes, one cluster, two clusters and 5 bytes, three
\* clusters, four
WriteSizes   == {0, 5, SECTOR_SIZE, 2 * SECTOR_SIZE + 5, 3 * SECTOR_SIZE, 4 * SECTOR_SIZE}
\* the image ends with cluster 4, 100 bytes into it, or where it starts
WriteImageLens == {8704 + 4 * SECTOR_SIZE, 8704 + 3 * SECTOR_SIZE + 100, 8704 + 3 * SECTOR_SIZE}

\* the 16-bit table in which cluster 1 ends its chain and n clusters are
\* chained from cluster 2; every other entry is zero
ChainFat(off, n) ==
    [q \in off + 4096 + 2 .. off + 4096 + 2 * (n + 2) - 1 |->
        LET c == (q - off - 4096) \div 2
            v == IF c = 1 \/ c = n + 1 THEN END_OF_CHAIN ELSE c + 1
        IN  FatEntry(2, v)[((q - off - 4096) % 2) + 1]]

WriteRecord(fb, size) == MkRecord(fb, 0, <<65>>, 255, 2, size)

WriteImage(ilen, n, r) ==
    LET base == Image(ilen, Put(SECTOR_SIZE, Superblock(XTAF_MAGIC, 1, 1)))
        P    == Partition_new(base, SECTOR_SIZE, WritePartLen, "Data").p
    IN  CutImage(ilen, DirCluster(P, 1, <<r>>) @@ ChainFat(SECTOR_SIZE, n) @@ base.b)

\* a file that stands at the record's path before the run
PriorFile ==
    [path |-> [dir |-> <<"Data">>, name |-> <<65>>, video |-> -1], length |-> 7,
     clusters |-> << >>, written |-> TRUE, offset |-> 0, pass |-> "before"]

InitWrite ==
    /\ \E fb \in {1, DELETED_FILE_FLAG}, size \in WriteSizes, n \in WriteChains,
          ilen \in WriteImageLens :
          /\ rec = WriteRecord(fb, size)
          /\ image = WriteImage(ilen, IF fb = 1 THEN n ELSE 0, rec)
    /\ part = Partition_new(image, SECTOR_SIZE, WritePartLen, "Data").p
    /\ files \in {{}, {PriorFile}}
    /\ dirs = {dr \in {<<"Data">>} : files # {}}
    /\ pc = "parse"
    /\ result = None
    /\ epc = "idle"
    /\ is_deleted = FALSE
    /\ next = 0
    /\ chain = << >>
    /\ hdd = << >>
    /\ cur = 0
    /\ todo = << >>
    /\ video_files = 0
    /\ err = "none"
    /\ bink = None
    /\ DirIdle /\ ScanIdle

\* fatx.rs line 292: Entry::parse of the record at the start of cluster 1
ParseRecord ==
    /\ pc = "parse"
    /\ \E e \in {Entry_parse(part, image, rec, block_offset(part, 1))} :
          /\ result' = e
          /\ pc' = IF e.kind = "Some" THEN "write" ELSE "skipped"
    /\ UNCHANGED <<image, part, rec, epc, is_deleted, next, chain, hdd, cur, todo,
                   video_files, err, dirs, files, bink, dirVars, scanVars>>

\* main.rs lines 217-221: write_to_file(child_output_path.join(name))
WriteFile ==
    /\ pc = "write"
    /\ \E w \in {write_to_file(result, EntryPath(<<"Data">>, result), part, image,
                               [dirs |-> dirs, files |-> files], "live")} :
          /\ dirs' = w.fs.dirs
          /\ files' = w.fs.files
          /\ pc' = IF w.panic THEN "failed" ELSE "done"
          /\ err' = IF w.panic THEN "panic" ELSE err
    /\ UNCHANGED <<image, part, rec, epc, is_deleted, next, chain, result, hdd, cur, todo,
                   video_files, bink, dirVars, scanVars>>

NextWrite == ParseRecord \/ WriteFile

SpecWrite == InitWrite /\ [][NextWrite]_vars

\* the files written from the Entry parsed
WrittenFor(e) == {f \in files : f.pass = "live" /\ f.written /\ f.offset = e.offset}

C15_ChainInsideImage ==
    (pc \in {"write", "done", "failed"} /\ result.kind = "Some") =>
        /\ \A k \in DOMAIN result.block_chain :
              block_offset(part, result.block_chain[k]) + cluster_size(part) <= image.len
        /\ pc # "failed"

\* the positions the loop of worker w probes, and the 16-byte-aligned positions
\* of the range
ProbedBy(w) == Positions(ShardStart(scan, w), ShardEnd(scan, w))

AlignedInRange == {q \in scan.lo .. scan.hi - 1 : q % STRIDE = 0}

\* C14: the eight shards together probe every 16-byte-aligned position of the
\* range exactly once, so that the list returned holds no discovery twice.
C14_EachPositionProbedOnce ==
    returned # None =>
        /\ \A q \in AlignedInRange : Cardinality({w \in Workers : q \in ProbedBy(w)}) = 1
        /\ \A i, j \in DOMAIN returned.list :
              i # j => returned.list[i] # returned.list[j]

\* C16: read_block returns at most cluster_size / 0x40 entries, each parsed at
\* a record offset of its own inside the cluster, also when the cluster
\* reaches past the end of the image.
C16_EntriesFromDistinctRecords ==
    /\ Len(entries) <= cluster_size(part) \div ENTRY_SIZE
    /\ \A i, j \in DOMAIN entries : i # j => entries[i].offset # entries[j].offset
    /\ \A i \in DOMAIN entries :
          /\ entries[i].offset >= block_offset(part, block)
          /\ entries[i].offset < block_offset(part, block) + cluster_size(part)
          /\ (entries[i].offset - block_offset(part, block)) % ENTRY_SIZE = 0

====
